---- MODULE Spec2Model ----
(***************************************************************************)
(* Model of the composite sentiment scoring engine of                      *)
(* crypto-sentiment-tracker/sentiment_tracker.py (CryptoSentimentTracker). *)
(*                                                                         *)
(* Number representation.  The source computes in binary floating point;   *)
(* the model computes in exact fixed point:                                *)
(*   - a component score (rounded to 2 decimals by the source) and the     *)
(*     reported 'score' are integers in hundredths (44.59 is 4459);        *)
(*   - a weight is an integer in hundredths (0.30 is 30);                  *)
(*   - the composite, a sum of score * weight, is an integer in            *)
(*     ten-thousandths (64.29 is 642900);                                  *)
(*   - lth_supply_change and sopr are integers in hundredths;              *)
(*   - a return of the price history is an integer in permille.            *)
(* round(composite, 2) of a composite that lies exactly between two         *)
(* hundredths is decided in the source by the binary representation of the *)
(* float; the model rounds such a tie to the even hundredth.               *)
(* Python dicts are functions: a missing key is a key outside DOMAIN.      *)
(* The labels are the English halves of the source's bilingual strings;    *)
(* "Unknown" stands for the fallback label "未知".                         *)
(***************************************************************************)
EXTENDS Integers, Sequences, FiniteSets, TLC

VARIABLES weights, sentiment_levels, clock, last, prev, calc

vars == <<weights, sentiment_levels, clock, last, prev, calc>>

(***************************************************************************)
(* Python helpers                                                          *)
(***************************************************************************)

\* dict.get(key, default)
Get(d, key, default) == IF key \in DOMAIN d THEN d[key] ELSE default

\* what a call hands back: a value (error = NoError, value = <<v>>), or the
\* exception it raised (value = <<>>)
NoError == "none"

ZeroDivisionError == "ZeroDivisionError"

Return(v) == [error |-> NoError, value |-> <<v>>]

Raise(e) == [error |-> e, value |-> <<>>]

Min(a, b) == IF a <= b THEN a ELSE b

Max(a, b) == IF a >= b THEN a ELSE b

\* round(): the integer nearest to num / den (den > 0), ties to the even one
RoundHalfEven(num, den) ==
    LET q == num \div den
        r == num % den
    IN  IF 2 * r < den THEN q
        ELSE IF 2 * r > den THEN q + 1
        ELSE IF q % 2 = 0 THEN q ELSE q + 1

\* variant: the lower clamp only, round(max(x, 0), 2)
ClampRound2_no_ceiling(num, den) ==
    IF num <= 0 THEN 0
    ELSE LET q == num \div den
             r == num % den
         IN  100 * q + RoundHalfEven(100 * r, den)

\* round(min(max(x, 0), 100), 2) of x = num / den points (den > 0), in hundredths
ClampRound2(num, den) ==
    IF num <= 0 THEN 0
    ELSE IF num >= 100 * den THEN 10000
    ELSE LET q == num \div den
             r == num % den
         IN  100 * q + RoundHalfEven(100 * r, den)

(***************************************************************************)
(* 1. calculate_social_heat                                                *)
(***************************************************************************)

\* np.log10(n) * 10^5, rounded, on the values of total + 1 the model draws
log10 ==
    [n \in {1, 2, 3, 11, 101, 12001, 20001, 30001, 45001, 1000000} |->
        CASE n = 1 -> 0
          [] n = 2 -> 30103
          [] n = 3 -> 47712
          [] n = 11 -> 104139
          [] n = 101 -> 200432
          [] n = 12001 -> 407922
          [] n = 20001 -> 430105
          [] n = 30001 -> 447714
          [] n = 45001 -> 465322
          [] n = 1000000 -> 600000]

\* (positive - negative) / total: the division raises on a zero divisor
net_sentiment_raises(total) == total = 0

\* heat_score in hundredths, exactly: whole + num / den with 0 <= num < den
\*   heat_score = ((positive - negative) / total + 1) / 2 * 50
\*              + min(log10(total + 1) / 6, 1.0) * 50
\* i.e. in hundredths 2500 * (positive - negative + total) / total + L / 120,
\* L = min(log10 * 10^5, 600000).  The product 2500 * q is taken in two
\* factors of 50 to stay inside machine integers.
heat_score(positive, negative, total) ==
    LET q   == positive - negative + total
        q0  == q \div total
        m0  == q % total
        c1  == (50 * m0) \div total
        r1  == (50 * m0) % total
        c2  == (50 * r1) \div total
        r2  == (50 * r1) % total
        L   == Min(log10[total + 1], 600000)
        den == 120 * total
        f   == 120 * r2 + total * (L % 120)
        whole == 2500 * q0 + 50 * c1 + c2 + (L \div 120) + (f \div den)
    IN  [whole |-> whole, num |-> f % den, den |-> den]

\* calculate_social_heat(mentions_data): Return(hundredths), or the exception
\* raised by the division
calculate_social_heat(mentions_data) ==
    LET positive == Get(mentions_data, "positive_mentions", 0)
        negative == Get(mentions_data, "negative_mentions", 0)
        total    == Get(mentions_data, "total_mentions", 1)
    IN  IF net_sentiment_raises(total) THEN Raise(ZeroDivisionError)
        ELSE LET h == heat_score(positive, negative, total)
             IN  IF h.whole < 0 THEN Return(0)
                 ELSE IF h.whole >= 10000 THEN Return(10000)
                 ELSE Return(h.whole + RoundHalfEven(h.num, h.den))

(***************************************************************************)
(* 2. calculate_search_momentum                                            *)
(***************************************************************************)

\* variant: growth over the whole series, (last - first) / first
growth_rate_over_series(series) ==
    IF Len(series) < 2 \/ series[1] = 0
    THEN [num |-> 0, den |-> 1]
    ELSE [num |-> series[Len(series)] - series[1], den |-> series[1]]

\* variant: the change taken relative to the last value, (last - second_last) / last
growth_rate_over_last(series) ==
    IF Len(series) < 2 \/ series[Len(series)] = 0
    THEN [num |-> 0, den |-> 1]
    ELSE [num |-> series[Len(series)] - series[Len(series) - 1],
          den |-> series[Len(series)]]

\* growth_rate(series) as the fraction <<num, den>>, den > 0
growth_rate(series) ==
    IF Len(series) < 2 \/ series[Len(series) - 1] = 0
    THEN [num |-> 0, den |-> 1]
    ELSE [num |-> series[Len(series)] - series[Len(series) - 1],
          den |-> series[Len(series) - 1]]

\* variant: the crash term taken as -crash_growth * 30, without the constant 1
calculate_search_momentum_signed_crash(trend_data) ==
    LET buy   == growth_rate(Get(trend_data, "buy_bitcoin", <<0, 0>>))
        crash == growth_rate(Get(trend_data, "crypto_crash", <<0, 0>>))
        alt   == growth_rate(Get(trend_data, "altcoin_season", <<0, 0>>))
        den   == buy.den * crash.den * alt.den
        sentiment_score ==
              40 * buy.num * crash.den * alt.den
            - 30 * crash.num * buy.den * alt.den
            + 30 * alt.num * buy.den * crash.den
        normalized == (sentiment_score + den) * 50
    IN  ClampRound2(normalized, den)

\* calculate_search_momentum(trend_data): hundredths
\*   normalized = (buy*40 + (1 - crash)*30 + alt*30 + 1) * 50
calculate_search_momentum(trend_data) ==
    LET buy   == growth_rate(Get(trend_data, "buy_bitcoin", <<0, 0>>))
        crash == growth_rate(Get(trend_data, "crypto_crash", <<0, 0>>))
        alt   == growth_rate(Get(trend_data, "altcoin_season", <<0, 0>>))
        den   == buy.den * crash.den * alt.den
        sentiment_score ==
              40 * buy.num * crash.den * alt.den
            + 30 * (crash.den - crash.num) * buy.den * alt.den
            + 30 * alt.num * buy.den * crash.den
        normalized == (sentiment_score + den) * 50
    IN  ClampRound2(normalized, den)

(***************************************************************************)
(* 3. analyze_onchain_signals                                              *)
(***************************************************************************)

netflow_signal(netflow) ==
    IF netflow < -1000 THEN 80 ELSE IF netflow < 0 THEN 60 ELSE 40

\* lth_change in hundredths of a percent point
lth_signal(lth_change) ==
    IF lth_change > 100 THEN 75 ELSE IF lth_change > 0 THEN 60 ELSE 45

\* variant: the two profit-taking cut points taken as closed, >= 1.05 and >= 1.00
sopr_signal_closed_cuts(sopr) ==
    IF sopr >= 105 THEN 40
    ELSE IF sopr >= 100 THEN 65
    ELSE IF sopr < 95 THEN 70
    ELSE 50

\* sopr in hundredths
sopr_signal(sopr) ==
    IF sopr > 105 THEN 40
    ELSE IF sopr > 100 THEN 65
    ELSE IF sopr < 95 THEN 70
    ELSE 50

\* analyze_onchain_signals(chain_data): round(np.mean(signals), 2) in hundredths
analyze_onchain_signals(chain_data) ==
    LET signals == << netflow_signal(Get(chain_data, "exchange_netflow", 0)),
                      lth_signal(Get(chain_data, "lth_supply_change", 0)),
                      sopr_signal(Get(chain_data, "sopr", 100)) >>
    IN  RoundHalfEven(100 * (signals[1] + signals[2] + signals[3]), Len(signals))

(***************************************************************************)
(* 4. calculate_volatility_sentiment                                       *)
(***************************************************************************)

\* the fewest price points for which a volatility is computed
MinPricePoints == 30

\* the window of returns.tail(7)
TailWindow == 7

RECURSIVE SumSeq(_)
SumSeq(s) == IF s = <<>> THEN 0 ELSE Head(s) + SumSeq(Tail(s))

\* pd.Series(price_data).pct_change().dropna(): one return per point after the
\* first, price[i+1] / price[i] - 1, carried in permille
pct_change(price_data) ==
    [i \in 1..(Len(price_data) - 1) |->
        RoundHalfEven(1000 * (price_data[i + 1] - price_data[i]), price_data[i])]

\* Series.tail(n): the last n elements (all of them when there are fewer)
tail(s, n) == IF Len(s) <= n THEN s ELSE SubSeq(s, Len(s) - n + 1, Len(s))

\* Series.std(), squared (sample variance, ddof = 1) as a fraction:
\* (n * sum(x^2) - sum(x)^2) / (n * (n - 1)); num = 0 exactly when std is 0
variance(s) ==
    LET n  == Len(s)
        s1 == SumSeq(s)
        s2 == SumSeq([i \in 1..n |-> s[i] * s[i]])
    IN  [num |-> n * s2 - s1 * s1, den |-> n * (n - 1)]

\* vol_deviation = (current_vol - avg_vol) / avg_vol.  Both volatilities carry
\* the same factor sqrt(365), so the deviation is decided by the two variances
\* (permille^2, truncated to integers; on the histories drawn below every
\* decision of the ladder is the one the float computation takes).  A zero
\* avg_vol is not guarded by the source: the float division 0.0 / 0.0 yields
\* nan, with a warning and no exception.
vol_deviation(returns) ==
    LET cur == variance(tail(returns, TailWindow))
        avg == variance(returns)
    IN  [nan |-> avg.num = 0,
         current_var |-> cur.num \div cur.den,
         avg_var |-> avg.num \div avg.den]

\* vol_deviation > (a - b) / b, i.e. current_vol > (a / b) * avg_vol;
\* every comparison with nan is False
DeviationAbove(dev, a, b) ==
    ~dev.nan /\ b * b * dev.current_var > a * a * dev.avg_var

\* vol_deviation < (a - b) / b
DeviationBelow(dev, a, b) ==
    ~dev.nan /\ b * b * dev.current_var < a * a * dev.avg_var

\* the threshold ladder on vol_deviation: > 0.5, > 0.2, < -0.3, else
volatility_score(dev) ==
    IF DeviationAbove(dev, 3, 2) THEN 30
    ELSE IF DeviationAbove(dev, 6, 5) THEN 45
    ELSE IF DeviationBelow(dev, 7, 10) THEN 65
    ELSE 55

\* variant: the fallback taken only when the 7-return window cannot be filled
calculate_volatility_sentiment_window_guard(price_data) ==
    IF Len(price_data) < TailWindow + 1
    THEN [score |-> 50, divided |-> FALSE, zero_divisor |-> FALSE]
    ELSE LET dev == vol_deviation(pct_change(price_data))
         IN  [score |-> volatility_score(dev), divided |-> TRUE,
              zero_divisor |-> dev.nan]

\* calculate_volatility_sentiment(price_data): the score in points, with what
\* the call did on its way: whether it computed the returns and evaluated the
\* division, and whether the division's divisor avg_vol was zero
calculate_volatility_sentiment(price_data) ==
    IF Len(price_data) < MinPricePoints
    THEN [score |-> 50, divided |-> FALSE, zero_divisor |-> FALSE]
    ELSE LET dev == vol_deviation(pct_change(price_data))
         IN  [score |-> volatility_score(dev), divided |-> TRUE,
              zero_divisor |-> dev.nan]

(***************************************************************************)
(* Inputs of the calculators                                               *)
(***************************************************************************)

\* how far past MinPricePoints the drawn price histories reach
MaxExtraPoints == 2

\* how many trailing points of a drawn history may follow a second pattern
MaxTailPoints == 9

MentionCounts == {0, 1, 3, 2000, 5000, 8300, 12500, 15000, 25000}

TotalCounts == {0, 1, 2, 10, 100, 12000, 20000, 30000, 45000, 999999}

\* mention records: every key present, total_mentions missing, or empty
MentionStats ==
    [positive_mentions : MentionCounts, negative_mentions : MentionCounts,
     total_mentions : TotalCounts]
    \cup [positive_mentions : MentionCounts, negative_mentions : MentionCounts]
    \cup {<<>>}

\* weekly search volumes: empty, one point, a zero or non-zero second-last
\* value, a last value about twice the second-last
SearchSeries ==
    { <<>>, <<7>>, <<0, 0>>, <<0, 7>>, <<10, 10>>, <<40, 10, 8>>,
      <<7, 14>>, <<35, 71>>,
      <<20, 15, 12, 10, 8>>, <<80, 90, 95, 100, 95>>, <<10, 8, 5, 3, 2>>,
      <<45, 52, 48, 61, 58>>, <<30, 35, 42, 38, 33>>, <<25, 28, 35, 45, 52>>,
      <<30, 50, 70, 90, 100>>, <<20, 15, 10, 5, 3>>, <<40, 60, 80, 95, 100>>,
      <<5, 30>> }

SearchTrends ==
    [buy_bitcoin : SearchSeries, crypto_crash : SearchSeries,
     altcoin_season : SearchSeries]
    \cup [buy_bitcoin : SearchSeries, altcoin_season : SearchSeries]
    \cup {<<>>}

OnchainMetrics ==
    [exchange_netflow : {-5000, -2500, -1001, -1000, -1, 0, 100, 5000},
     lth_supply_change : {-250, 0, 1, 10, 80, 100, 101, 300},
     sopr : {85, 94, 95, 100, 101, 102, 105, 106, 115}]
    \cup [exchange_netflow : {-2500, 0}, lth_supply_change : {-250, 80}]
    \cup {<<>>}

\* one period of a price history
PricePatterns ==
    { <<45000>>, <<45000, 45450>>, <<45000, 49500>>, <<40000, 60000>>,
      <<45000, 47250, 42750>>,
      <<60000, 58000, 55000, 52000, 48000, 45000, 42000, 40000, 38000, 35000>>,
      <<42000, 43500, 42800, 45100, 46700, 45800, 47200, 48900, 47600, 49500>>,
      <<45000, 45200, 44800, 45100, 44900, 45300, 44700, 45000, 45200, 44900>> }

\* n points: pattern body repeated, the last k points following pattern end
PriceHistory(n, body, end, k) ==
    [i \in 1..n |-> IF i <= n - k THEN body[((i - 1) % Len(body)) + 1]
                    ELSE end[((i - 1) % Len(end)) + 1]]

\* the Python list pattern * k
Times(pattern, k) ==
    [i \in 1..(k * Len(pattern)) |-> pattern[((i - 1) % Len(pattern)) + 1]]

PriceHistories ==
    { PriceHistory(n, body, body, 0) :
        n \in {0, 1, 2, 8, MinPricePoints - 1}, body \in PricePatterns }
    \cup { PriceHistory(n, body, end, k) :
        n \in MinPricePoints..(MinPricePoints + MaxExtraPoints),
        body \in PricePatterns, end \in PricePatterns,
        k \in {0, 3, 6, MaxTailPoints} }

(***************************************************************************)
(* The tracker: CryptoSentimentTracker.__init__                            *)
(***************************************************************************)

DefaultWeights ==
    [social |-> 30, search |-> 25, onchain |-> 25, volatility |-> 20]

\* self.sentiment_levels in insertion order: (low, high) -> description
SentimentLevels ==
    << [low |-> 0,  high |-> 20,  desc |-> "Extreme Fear"],
       [low |-> 20, high |-> 40,  desc |-> "Fear"],
       [low |-> 40, high |-> 60,  desc |-> "Neutral"],
       [low |-> 60, high |-> 80,  desc |-> "Greed"],
       [low |-> 80, high |-> 100, desc |-> "Extreme Greed"] >>

(***************************************************************************)
(* get_comprehensive_sentiment                                             *)
(***************************************************************************)

Components == {"social", "search", "onchain", "volatility"}

\* the example data used when no data (None, or an empty dict) is passed
SampleData ==
    [social |-> [positive_mentions |-> 12500, negative_mentions |-> 8300,
                 total_mentions |-> 45000],
     search |-> [buy_bitcoin |-> <<45, 52, 48, 61, 58>>,
                 crypto_crash |-> <<30, 35, 42, 38, 33>>,
                 altcoin_season |-> <<25, 28, 35, 45, 52>>],
     onchain |-> [exchange_netflow |-> -2500, lth_supply_change |-> 80,
                  sopr |-> 102],
     price_history |->
         Times(<<42000, 43500, 42800, 45100, 46700,
                 45800, 47200, 48900, 47600, 49500>>, 3)]

\* one point of the 0-100 scale in the composite's unit: hundredths of a score
\* times hundredths of a weight
Point == 100 * 100

\* variant: a weighted average, the sum divided by the sum of the weights
composite_sum_averaged(social_score, search_score, onchain_score, vol_score, w) ==
    LET total == w["social"] + w["search"] + w["onchain"] + w["volatility"]
        sum   == social_score * w["social"]
               + search_score * w["search"]
               + onchain_score * w["onchain"]
               + (100 * vol_score) * w["volatility"]
    IN  IF total = 0 THEN sum ELSE (100 * sum) \div total

\* composite = sum of score * weight, in ten-thousandths; the scores in
\* hundredths, the volatility score in points
composite_sum(social_score, search_score, onchain_score, vol_score, w) ==
      social_score * w["social"]
    + search_score * w["search"]
    + onchain_score * w["onchain"]
    + (100 * vol_score) * w["volatility"]

\* for (low, high), desc in self.sentiment_levels.items():
\*     if low <= composite < high: sentiment_desc = desc; break
\* with sentiment_desc = "Unknown" before the loop
\* variant: the top band made to accept 100 by dropping its upper limit
level_matches_open_top(composite, level) ==
    /\ level.low * Point <= composite
    /\ (composite < level.high * Point \/ level.high = 100)

level_matches(composite, level) ==
    level.low * Point <= composite /\ composite < level.high * Point

RECURSIVE sentiment_desc(_, _)
sentiment_desc(composite, levels) ==
    IF levels = <<>> THEN "Unknown"
    ELSE IF level_matches(composite, Head(levels)) THEN Head(levels).desc
    ELSE sentiment_desc(composite, Tail(levels))

\* variant: the signal ladder on the bands' first cut point, 20
signal_of_band_cuts(composite) ==
    IF composite < 20 * Point THEN "buy opportunity"
    ELSE IF composite < 40 * Point THEN "accumulate cautiously"
    ELSE IF composite < 60 * Point THEN "neutral / wait"
    ELSE IF composite < 80 * Point THEN "consider taking profit"
    ELSE "correction risk"

\* the if / elif ladder that picks the trading signal
signal_of(composite) ==
    IF composite < 25 * Point THEN "buy opportunity"
    ELSE IF composite < 40 * Point THEN "accumulate cautiously"
    ELSE IF composite < 60 * Point THEN "neutral / wait"
    ELSE IF composite < 80 * Point THEN "consider taking profit"
    ELSE "correction risk"

\* variant: the call rescales self.weights in place to sum to 1 before it
\* weighs the components
get_comprehensive_sentiment_rescaling(self, data, now) ==
    LET sample_data   == IF DOMAIN data = {} THEN SampleData ELSE data
        total         == self.weights["social"] + self.weights["search"]
                         + self.weights["onchain"] + self.weights["volatility"]
        rescaled      ==
            IF total = 0 THEN self.weights
            ELSE [k \in Components |-> (100 * self.weights[k]) \div total]
        social        == calculate_social_heat(sample_data["social"])
        search_score  == calculate_search_momentum(sample_data["search"])
        onchain_score == analyze_onchain_signals(sample_data["onchain"])
        vol_score     ==
            calculate_volatility_sentiment(sample_data["price_history"]).score
        composite     ==
            composite_sum(social.value[1], search_score, onchain_score,
                          vol_score, rescaled)
    IN  IF social.error # NoError
        THEN [ret |-> Raise(social.error), composite |-> 0,
              self |-> [self EXCEPT !.weights = rescaled], data |-> data]
        ELSE [ret |-> Return(
                  [overall |-> sentiment_desc(composite, self.sentiment_levels),
                   score |-> RoundHalfEven(composite, 100),
                   components |->
                       [social_heat |-> social.value[1],
                        search_momentum |-> search_score,
                        onchain_signals |-> onchain_score,
                        volatility_sentiment |-> vol_score],
                   signal |-> signal_of(composite),
                   timestamp |-> now]),
              composite |-> composite,
              self |-> [self EXCEPT !.weights = rescaled], data |-> data]

\* One call self.get_comprehensive_sentiment(data) at clock reading now:
\*   ret       what the call returns or raises,
\*   composite the call's local variable (0 when it raised before the sum),
\*   self, data the tracker's fields and the argument as the call leaves them.
get_comprehensive_sentiment(self, data, now) ==
    LET sample_data   == IF DOMAIN data = {} THEN SampleData ELSE data
        social        == calculate_social_heat(sample_data["social"])
        search_score  == calculate_search_momentum(sample_data["search"])
        onchain_score == analyze_onchain_signals(sample_data["onchain"])
        vol_score     ==
            calculate_volatility_sentiment(sample_data["price_history"]).score
        composite     ==
            composite_sum(social.value[1], search_score, onchain_score,
                          vol_score, self.weights)
    IN  IF social.error # NoError
        THEN [ret |-> Raise(social.error), composite |-> 0,
              self |-> self, data |-> data]
        ELSE [ret |-> Return(
                  [overall |-> sentiment_desc(composite, self.sentiment_levels),
                   score |-> RoundHalfEven(composite, 100),
                   components |->
                       [social_heat |-> social.value[1],
                        search_momentum |-> search_score,
                        onchain_signals |-> onchain_score,
                        volatility_sentiment |-> vol_score],
                   signal |-> signal_of(composite),
                   timestamp |-> now]),
              composite |-> composite,
              self |-> self, data |-> data]

Init ==
    /\ weights = DefaultWeights
    /\ sentiment_levels = SentimentLevels
    /\ clock = 0
    /\ last = <<>>
    /\ prev = <<>>
    /\ calc = <<>>

tracker == <<weights, sentiment_levels, clock, last, prev>>

(***************************************************************************)
(* The calculators, each a pure function, applied once to a drawn input    *)
(***************************************************************************)

CallSocialHeat ==
    /\ calc = <<>>
    /\ \E m \in MentionStats :
          calc' = << [fn |-> "calculate_social_heat", arg |-> m,
                      out |-> calculate_social_heat(m)] >>
    /\ UNCHANGED tracker

CallSearchMomentum ==
    /\ calc = <<>>
    /\ \E t \in SearchTrends :
          calc' = << [fn |-> "calculate_search_momentum", arg |-> t,
                      out |-> calculate_search_momentum(t)] >>
    /\ UNCHANGED tracker

CallOnchainSignals ==
    /\ calc = <<>>
    /\ \E c \in OnchainMetrics :
          calc' = << [fn |-> "analyze_onchain_signals", arg |-> c,
                      out |-> analyze_onchain_signals(c)] >>
    /\ UNCHANGED tracker

CallVolatilitySentiment ==
    /\ calc = <<>>
    /\ \E p \in PriceHistories :
          calc' = << [fn |-> "calculate_volatility_sentiment", arg |-> p,
                      out |-> calculate_volatility_sentiment(p)] >>
    /\ UNCHANGED tracker

CalcNext ==
    \/ CallSocialHeat
    \/ CallSearchMomentum
    \/ CallOnchainSignals
    \/ CallVolatilitySentiment

CalcSpec == Init /\ [][CalcNext]_vars

(***************************************************************************)
(* The callers: demo.py, and the data and weights they pass                *)
(***************************************************************************)

\* how many scoring calls a behaviour makes
MaxCalls == 3

\* demo_different_market_conditions: the three scenarios
BearPanic ==
    [social |-> [positive_mentions |-> 2000, negative_mentions |-> 15000,
                 total_mentions |-> 20000],
     search |-> [buy_bitcoin |-> <<20, 15, 12, 10, 8>>,
                 crypto_crash |-> <<80, 90, 95, 100, 95>>,
                 altcoin_season |-> <<10, 8, 5, 3, 2>>],
     onchain |-> [exchange_netflow |-> 5000, lth_supply_change |-> -250,
                  sopr |-> 85],
     price_history |->
         Times(<<60000, 58000, 55000, 52000, 48000,
                 45000, 42000, 40000, 38000, 35000>>, 3)]

BullEuphoria ==
    [social |-> [positive_mentions |-> 25000, negative_mentions |-> 2000,
                 total_mentions |-> 30000],
     search |-> [buy_bitcoin |-> <<30, 50, 70, 90, 100>>,
                 crypto_crash |-> <<20, 15, 10, 5, 3>>,
                 altcoin_season |-> <<40, 60, 80, 95, 100>>],
     onchain |-> [exchange_netflow |-> -5000, lth_supply_change |-> 300,
                  sopr |-> 115],
     price_history |->
         Times(<<40000, 42000, 45000, 48000, 52000,
                 56000, 60000, 65000, 70000, 75000>>, 3)]

Sideways ==
    [social |-> [positive_mentions |-> 5000, negative_mentions |-> 5000,
                 total_mentions |-> 12000],
     search |-> [buy_bitcoin |-> <<50, 52, 48, 51, 49>>,
                 crypto_crash |-> <<30, 28, 32, 29, 31>>,
                 altcoin_season |-> <<40, 42, 38, 41, 39>>],
     onchain |-> [exchange_netflow |-> 100, lth_supply_change |-> 10,
                  sopr |-> 100],
     price_history |->
         Times(<<45000, 45200, 44800, 45100, 44900,
                 45300, 44700, 45000, 45200, 44900>>, 3)]

\* further data: every component at the bottom of its range (more negative
\* than total mentions, a jump in crash searches, a failed price fetch)
Capitulation ==
    [social |-> [positive_mentions |-> 0, negative_mentions |-> 3,
                 total_mentions |-> 1],
     search |-> [buy_bitcoin |-> <<10, 10>>, crypto_crash |-> <<5, 30>>,
                 altcoin_season |-> <<10, 10>>],
     onchain |-> [exchange_netflow |-> -5000, lth_supply_change |-> 300,
                  sopr |-> 115],
     price_history |-> <<>>]

\* social heat and search momentum at the top of their range, constant prices
Saturated ==
    [social |-> [positive_mentions |-> 3, negative_mentions |-> 0,
                 total_mentions |-> 1],
     search |-> <<>>,
     onchain |-> <<>>,
     price_history |-> Times(<<45000>>, 30)]

\* analyze_twitter_sentiment of an empty list of tweets: all counts zero
NoMentions ==
    [social |-> [positive_mentions |-> 0, negative_mentions |-> 0,
                 total_mentions |-> 0],
     search |-> [buy_bitcoin |-> <<45, 52, 48, 61, 58>>],
     onchain |-> [exchange_netflow |-> 0],
     price_history |-> <<45000>>]

\* <<>> is the call without data
CallData ==
    {<<>>, BearPanic, BullEuphoria, Sideways, Capitulation, Saturated, NoMentions}

\* demo_custom_weights: more weight on the on-chain data
DemoWeights ==
    [social |-> 15, search |-> 20, onchain |-> 45, volatility |-> 20]

\* the weights a caller assigns to tracker.weights: the demo's, the default
\* ones with only 'onchain' raised, all weight on one component, a negative one
AssignedWeights ==
    { DefaultWeights, DemoWeights,
      [DefaultWeights EXCEPT !["onchain"] = 45],
      [social |-> 0, search |-> 100, onchain |-> 0, volatility |-> 0],
      [DefaultWeights EXCEPT !["social"] = -30] }

\* weights over a grid, well-formed or not
WeightLevels == {-50, 0, 20, 25, 40, 60, 80, 100}

WeightGrid == [Components -> WeightLevels]

\* tracker.weights = w
AssignWeights ==
    /\ \E w \in AssignedWeights : weights' = w
    /\ UNCHANGED <<sentiment_levels, clock, last, prev, calc>>

\* result = tracker.get_comprehensive_sentiment(data).  last records the call;
\* prev keeps one earlier call of the behaviour, any of them.
Score ==
    /\ clock < MaxCalls
    /\ \E data \in CallData :
         LET self == [weights |-> weights, sentiment_levels |-> sentiment_levels]
             call == get_comprehensive_sentiment(self, data, clock + 1)
         IN  /\ weights' = call.self.weights
             /\ sentiment_levels' = call.self.sentiment_levels
             /\ last' = << [data |-> data, weights |-> weights,
                            data_after |-> call.data,
                            composite |-> call.composite,
                            ret |-> call.ret] >>
    /\ clock' = clock + 1
    /\ prev' \in {prev, last}
    /\ UNCHANGED calc

Next ==
    \/ AssignWeights
    \/ Score

Spec == Init /\ [][Next]_vars

\* one call under weights drawn from the grid
GridInit ==
    /\ weights \in WeightGrid
    /\ sentiment_levels = SentimentLevels
    /\ clock = 0
    /\ last = <<>>
    /\ prev = <<>>
    /\ calc = <<>>

ScoreOnce == clock = 0 /\ Score

GridSpec == GridInit /\ [][ScoreOnce]_vars

(***************************************************************************)
(* Properties of the classification (GridSpec)                             *)
(***************************************************************************)

Returned(c) == c.ret.error = NoError

Result(c) == c.ret.value[1]

\* the five bands as documented: [0,20) [20,40) [40,60) [60,80) [80,100]
DocumentedBand(composite) ==
    IF composite < 0 \/ composite > 100 * Point THEN "Unknown"
    ELSE IF composite < 20 * Point THEN "Extreme Fear"
    ELSE IF composite < 40 * Point THEN "Fear"
    ELSE IF composite < 60 * Point THEN "Neutral"
    ELSE IF composite < 80 * Point THEN "Greed"
    ELSE "Extreme Greed"

BandTier(desc) ==
    CASE desc = "Extreme Fear" -> 1
      [] desc = "Fear" -> 2
      [] desc = "Neutral" -> 3
      [] desc = "Greed" -> 4
      [] desc = "Extreme Greed" -> 5
      [] OTHER -> 0

SignalTier(signal) ==
    CASE signal = "buy opportunity" -> 1
      [] signal = "accumulate cautiously" -> 2
      [] signal = "neutral / wait" -> 3
      [] signal = "consider taking profit" -> 4
      [] signal = "correction risk" -> 5
      [] OTHER -> 0

\* C1: every composite in the closed range [0,100] is labelled with exactly
\* one of the five bands, the boundary values 0, 20, 40, 60, 80 and 100
\* included; a composite of exactly 100 is labelled "Extreme Greed", not with
\* the fallback label.
C1_BandsCoverClosedRange ==
    \A i \in 1..Len(last) :
        LET c == last[i]
        IN  (Returned(c) /\ 0 <= c.composite /\ c.composite <= 100 * Point)
            => /\ Result(c).overall = DocumentedBand(c.composite)
               /\ Result(c).overall # "Unknown"

\* C2: a composite below 0 or above 100 does not make the call raise: it
\* returns a complete record (overall, score, components, signal, timestamp)
\* whose 'overall' is the fallback label "Unknown".
C2_OutOfRangeIsUnknown ==
    \A i \in 1..Len(last) :
        LET c == last[i]
        IN  (c.composite < 0 \/ c.composite > 100 * Point)
            => /\ Returned(c)
               /\ DOMAIN Result(c) =
                     {"overall", "score", "components", "signal", "timestamp"}
               /\ DOMAIN Result(c).components =
                     {"social_heat", "search_momentum", "onchain_signals",
                      "volatility_sentiment"}
               /\ Result(c).overall = "Unknown"
               /\ SignalTier(Result(c).signal) =
                     (IF c.composite < 0 THEN 1 ELSE 5)
               /\ Result(c).timestamp = clock

\* a call under weights summing to more than 1 left a composite above 100
\* and was answered with the fallback label
C2_Witness ==
    /\ last # <<>>
    /\ last[1].composite > 100 * Point
    /\ Returned(last[1])
    /\ Result(last[1]).overall = "Unknown"

\* C3: the signal follows the cut points 25/40/60/80 whatever the band cut
\* points are; a composite in [20,25) carries the band "Fear" with the signal
\* "buy opportunity", and every other composite in [0,100) carries band and
\* signal of the same tier.
C3_SignalCutPoints ==
    \A i \in 1..Len(last) :
        LET c == last[i]
            inGap == 20 * Point <= c.composite /\ c.composite < 25 * Point
        IN  Returned(c)
            => /\ SignalTier(Result(c).signal) =
                     1 + Cardinality({cut \in {25, 40, 60, 80} :
                                         c.composite >= cut * Point})
               /\ inGap => /\ Result(c).overall = "Fear"
                           /\ Result(c).signal = "buy opportunity"
               /\ (0 <= c.composite /\ c.composite < 100 * Point /\ ~inGap)
                  => BandTier(Result(c).overall) = SignalTier(Result(c).signal)

\* a composite strictly inside [20,25): band "Fear", signal "buy opportunity"
C3_Witness ==
    /\ last # <<>>
    /\ Returned(last[1])
    /\ 20 * Point < last[1].composite /\ last[1].composite < 25 * Point
    /\ Result(last[1]).overall = "Fear"
    /\ Result(last[1]).signal = "buy opportunity"

\* C13: the reported label is consistent with the reported score: for every
\* result whose composite lies in [0,100), 'overall' is the band that contains
\* the returned 'score' (the composite rounded to 2 decimals) and 'signal' is
\* the tier that contains it; rounding never moves the score across a cut
\* point 20/25/40/60/80 away from the label of the unrounded composite.
C13_LabelMatchesReportedScore ==
    \A i \in 1..Len(last) :
        LET c == last[i]
            score == 100 * Result(c).score
        IN  (Returned(c) /\ 0 <= c.composite /\ c.composite < 100 * Point)
            => /\ Result(c).overall = DocumentedBand(score)
               /\ SignalTier(Result(c).signal) =
                     1 + Cardinality({cut \in {25, 40, 60, 80} :
                                         score >= cut * Point})

(***************************************************************************)
(* Properties of the calculators (CalcSpec)                                *)
(***************************************************************************)

IsCall(c, fn) == c.fn = fn

\* C4: calculate_social_heat does not fail on a record whose total_mentions
\* is 0: the divisor is taken as 1, net_sentiment = positive - negative, the
\* volume factor is 0, and all-zero mentions give heat 25.
C4_ZeroTotalIsGuarded ==
    \A i \in 1..Len(calc) :
        LET c == calc[i]
        IN  (/\ IsCall(c, "calculate_social_heat")
             /\ "total_mentions" \in DOMAIN c.arg
             /\ c.arg["total_mentions"] = 0)
            => /\ c.out.error = NoError
               /\ c.out.value =
                     << Min(Max(2500 * (c.arg["positive_mentions"]
                                        - c.arg["negative_mentions"] + 1), 0),
                            10000) >>

\* C5: on a history of at least 30 equal prices (avg_vol = 0) the division
\* by avg_vol is guarded: it is not evaluated, and the score is the neutral 50.
C5_ZeroVolatilityIsGuarded ==
    \A i \in 1..Len(calc) :
        LET c == calc[i]
        IN  (/\ IsCall(c, "calculate_volatility_sentiment")
             /\ Len(c.arg) >= MinPricePoints
             /\ \A j \in 1..Len(c.arg) : c.arg[j] = c.arg[1])
            => /\ c.out.score = 50
               /\ ~c.out.divided

\* C8: every calculator's output lies in its documented range on every input
\* of its domain: social heat (total_mentions at least 1, or absent) and
\* search momentum in [0,100], on-chain signals in [40,80], volatility
\* sentiment one of 30, 45, 50, 55, 65.
C8_OutputsInRange ==
    \A i \in 1..Len(calc) :
        LET c == calc[i]
        IN  /\ IsCall(c, "calculate_social_heat")
               => /\ Get(c.arg, "total_mentions", 1) >= 1 => c.out.error = NoError
                  /\ c.out.error = NoError
                     => 0 <= c.out.value[1] /\ c.out.value[1] <= 10000
            /\ IsCall(c, "calculate_search_momentum")
               => 0 <= c.out /\ c.out <= 10000
            /\ IsCall(c, "analyze_onchain_signals")
               => 4000 <= c.out /\ c.out <= 8000
            /\ IsCall(c, "calculate_volatility_sentiment")
               => c.out.score \in {30, 45, 50, 55, 65}

\* search momentum held at the top of its range by the clamp: the demo's
\* bear-panic series, whose unclamped value is 725
C8_Witness ==
    /\ calc # <<>>
    /\ IsCall(calc[1], "calculate_search_momentum")
    /\ calc[1].arg = BearPanic.search
    /\ calc[1].out = 10000

\* C10: on a price history of fewer than 30 points, the empty one included,
\* calculate_volatility_sentiment returns exactly 50 whatever the prices are,
\* and computes no return and no division.
C10_ShortHistoryIsNeutral ==
    \A i \in 1..Len(calc) :
        LET c == calc[i]
        IN  (IsCall(c, "calculate_volatility_sentiment")
             /\ Len(c.arg) < MinPricePoints)
            => /\ c.out.score = 50
               /\ ~c.out.divided

\* a history of 29 prices that are not all equal, scored 50
C10_Witness ==
    /\ calc # <<>>
    /\ IsCall(calc[1], "calculate_volatility_sentiment")
    /\ Len(calc[1].arg) = MinPricePoints - 1
    /\ calc[1].arg[1] # calc[1].arg[2]
    /\ calc[1].out.score = 50
    /\ ~calc[1].out.divided

\* the reference ladders of the on-chain buckets, each read on its own;
\* the long-term-holder change and the SOPR are carried in hundredths
NetflowBucket(netflow) ==
    CASE netflow < -1000 -> 80
      [] -1000 <= netflow /\ netflow < 0 -> 60
      [] netflow >= 0 -> 40

LthBucket(change) ==
    CASE change > 100 -> 75
      [] 0 < change /\ change <= 100 -> 60
      [] change <= 0 -> 45

SoprBucket(sopr) ==
    CASE sopr > 105 -> 40
      [] 100 < sopr /\ sopr <= 105 -> 65
      [] sopr < 95 -> 70
      [] 95 <= sopr /\ sopr <= 100 -> 50

\* C11: analyze_onchain_signals returns the mean, rounded to 2 decimals, of
\* three bucket values chosen independently by the reference ladders (netflow
\* 80 / 60 / 40, long-term-holder change 75 / 60 / 45, SOPR 40 / 65 / 70 / 50);
\* a record without SOPR is scored as SOPR 1.0, bucket 50.
C11_OnchainIsMeanOfBuckets ==
    \A i \in 1..Len(calc) :
        LET c == calc[i]
            sopr == IF "sopr" \in DOMAIN c.arg THEN c.arg["sopr"] ELSE 100
            total == NetflowBucket(c.arg["exchange_netflow"])
                     + LthBucket(c.arg["lth_supply_change"])
                     + SoprBucket(sopr)
        IN  (/\ IsCall(c, "analyze_onchain_signals")
             /\ {"exchange_netflow", "lth_supply_change"} \subseteq DOMAIN c.arg)
            => /\ 3 * c.out - 1 <= 100 * total
               /\ 100 * total <= 3 * c.out + 1
               /\ "sopr" \notin DOMAIN c.arg
                  => c.out = RoundHalfEven(
                         100 * (NetflowBucket(c.arg["exchange_netflow"])
                                + LthBucket(c.arg["lth_supply_change"]) + 50), 3)

\* a record without SOPR, a large outflow and falling long-term holdings:
\* (80 + 45 + 50) / 3 = 58.33
C11_Witness ==
    /\ calc # <<>>
    /\ IsCall(calc[1], "analyze_onchain_signals")
    /\ DOMAIN calc[1].arg = {"exchange_netflow", "lth_supply_change"}
    /\ calc[1].arg["exchange_netflow"] = -2500
    /\ calc[1].arg["lth_supply_change"] = -250
    /\ calc[1].out = 5833

\* the growth rate of the claim, read off the record: 0 for a missing series,
\* a series of fewer than 2 points or a second-last value of 0
GrowthOf(trend_data, key) ==
    IF key \notin DOMAIN trend_data THEN [num |-> 0, den |-> 1]
    ELSE LET series == trend_data[key]
             n == Len(series)
         IN  IF n < 2 THEN [num |-> 0, den |-> 1]
             ELSE IF series[n - 1] = 0 THEN [num |-> 0, den |-> 1]
             ELSE [num |-> series[n] - series[n - 1], den |-> series[n - 1]]

\* clamp((buy*40 + (1 - crash)*30 + alt*30 + 1) * 50, 0, 100) as the exact
\* fraction num / den of a point, 0 <= num <= 100 * den
ClampedMomentum(trend_data) ==
    LET buy   == GrowthOf(trend_data, "buy_bitcoin")
        crash == GrowthOf(trend_data, "crypto_crash")
        alt   == GrowthOf(trend_data, "altcoin_season")
        den   == buy.den * crash.den * alt.den
        num   == 50 * (  40 * buy.num * crash.den * alt.den
                       + 30 * (crash.den - crash.num) * buy.den * alt.den
                       + 30 * alt.num * buy.den * crash.den
                       + den)
    IN  [num |-> Min(Max(num, 0), 100 * den), den |-> den]

\* C12 as stated: calculate_search_momentum never fails and equals
\* clamp((buy_growth*40 + (1 - crash_growth)*30 + alt_growth*30 + 1) * 50, 0,
\* 100), each growth rate being (last - second_last) / second_last, and 0 for
\* a missing series, fewer than 2 points or a second-last value of 0.
C12_MomentumIsClamp ==
    \A i \in 1..Len(calc) :
        LET c == calc[i]
            m == ClampedMomentum(c.arg)
        IN  IsCall(c, "calculate_search_momentum")
            => /\ c.out \in 0..10000
               /\ (100 * (m.num % m.den)) % m.den = 0
               /\ c.out = 100 * (m.num \div m.den)
                           + (100 * (m.num % m.den)) \div m.den

\* C12 as amended: calculate_search_momentum never fails and equals that
\* clamp rounded to 2 decimals, the hundredth nearest to it.
C12_MomentumIsRoundedClamp ==
    \A i \in 1..Len(calc) :
        LET c == calc[i]
            m == ClampedMomentum(c.arg)
            h == c.out - 100 * (m.num \div m.den)
            d == h * m.den - 100 * (m.num % m.den)
        IN  IsCall(c, "calculate_search_momentum")
            => /\ c.out \in 0..10000
               /\ -m.den <= 2 * d /\ 2 * d <= m.den

\* crash searches up from 35 to 71, the other two series flat: the clamp's
\* value is 50 / 7 = 7.1428..., the call returned 7.14
C12_Witness ==
    /\ calc # <<>>
    /\ IsCall(calc[1], "calculate_search_momentum")
    /\ calc[1].arg = [buy_bitcoin |-> <<10, 10>>, crypto_crash |-> <<35, 71>>,
                       altcoin_season |-> <<10, 10>>]
    /\ calc[1].out = 714

\* C14: calculate_search_momentum saturates for flat input: whenever all
\* three growth rates are 0 (flat, missing, empty or single-point series) it
\* returns exactly 100, and it returns a value below 100 only when
\* buy_growth*40 - crash_growth*30 + alt_growth*30 < -29.
C14_FlatInputSaturates ==
    \A i \in 1..Len(calc) :
        LET c == calc[i]
            buy   == GrowthOf(c.arg, "buy_bitcoin")
            crash == GrowthOf(c.arg, "crypto_crash")
            alt   == GrowthOf(c.arg, "altcoin_season")
        IN  IsCall(c, "calculate_search_momentum")
            => /\ (buy.num = 0 /\ crash.num = 0 /\ alt.num = 0) => c.out = 10000
               /\ c.out < 10000
                  =>   40 * buy.num * crash.den * alt.den
                     - 30 * crash.num * buy.den * alt.den
                     + 30 * alt.num * buy.den * crash.den
                     < -29 * buy.den * crash.den * alt.den

\* a flat series, a missing one and a single-point one: the call returned 100
C14_Witness ==
    /\ calc # <<>>
    /\ IsCall(calc[1], "calculate_search_momentum")
    /\ calc[1].arg = [buy_bitcoin |-> <<10, 10>>, altcoin_season |-> <<7>>]
    /\ calc[1].out = 10000

(***************************************************************************)
(* Properties of sequences of calls (Spec)                                 *)
(***************************************************************************)

\* prev and last are two calls on the same data whose weights differ in
\* 'onchain' alone, the later call with the larger one
OnchainWeightRaised ==
    /\ prev # <<>> /\ last # <<>>
    /\ Returned(prev[1]) /\ Returned(last[1])
    /\ prev[1].data = last[1].data
    /\ \A k \in Components \ {"onchain"} : prev[1].weights[k] = last[1].weights[k]
    /\ prev[1].weights["onchain"] < last[1].weights["onchain"]

\* the on-chain score of the two calls of such a pair, in the composite's unit
OnchainScore == 100 * Result(prev[1]).components.onchain_signals

\* C6 as stated: raising the 'onchain' weight alone strictly increases the
\* composite whenever onchain_score > composite and strictly decreases it
\* whenever onchain_score < composite.
C6_OnchainWeightSensitivity ==
    OnchainWeightRaised
    => /\ OnchainScore > prev[1].composite
          => last[1].composite > prev[1].composite
       /\ OnchainScore < prev[1].composite
          => last[1].composite < prev[1].composite

\* C6 as amended: raising the 'onchain' weight alone strictly increases the
\* composite in every case, by the weight's increase times onchain_score,
\* also when onchain_score < composite.
C6_OnchainWeightRaisesComposite ==
    OnchainWeightRaised
    => /\ last[1].composite > prev[1].composite
       /\ 100 * (last[1].composite - prev[1].composite) =
             (last[1].weights["onchain"] - prev[1].weights["onchain"])
             * OnchainScore

\* the 'onchain' weight raised on data whose on-chain score is below the
\* composite: the composite went up
C6_Witness ==
    /\ OnchainWeightRaised
    /\ OnchainScore < prev[1].composite
    /\ last[1].composite > prev[1].composite

\* two calls agree in everything but the timestamp
SameAnswer(a, b) ==
    /\ a.ret.error = b.ret.error
    /\ a.composite = b.composite
    /\ Returned(a)
       => /\ Result(a).score = Result(b).score
          /\ Result(a).overall = Result(b).overall
          /\ Result(a).signal = Result(b).signal
          /\ Result(a).components = Result(b).components

SameInputsSameAnswer ==
    (/\ prev # <<>> /\ last # <<>>
     /\ prev[1].data = last[1].data
     /\ prev[1].weights = last[1].weights)
    => SameAnswer(prev[1], last[1])

\* a scoring call (the only step that advances the clock) writes neither
\* tracker.weights nor tracker.sentiment_levels nor its argument
ScoringCallWritesNothing ==
    clock' # clock
    => /\ weights' = weights
       /\ sentiment_levels' = sentiment_levels
       /\ last'[1].data_after = last'[1].data

\* C7: no hidden state: any two calls of a behaviour, with reassignments of
\* tracker.weights between them, that are made with the same data and the same
\* weights return the same score, overall, signal and components; and a call
\* leaves tracker.weights, tracker.sentiment_levels and its data unchanged.
C7_NoHiddenState ==
    /\ []SameInputsSameAnswer
    /\ [][ScoringCallWritesNothing]_vars

\* the same data scored twice under the same weights, with other weights
\* assigned and used in between, at different times
C7_Witness ==
    /\ prev # <<>> /\ last # <<>>
    /\ prev[1].data = last[1].data
    /\ prev[1].weights = last[1].weights
    /\ prev[1].weights # DefaultWeights
    /\ Returned(prev[1]) /\ Returned(last[1])
    /\ Result(last[1]).timestamp = Result(prev[1]).timestamp + 2
    /\ SameAnswer(prev[1], last[1])

\* the demo's bear-panic data scored under the default weights
BearPanicCall(c) == c.data = BearPanic /\ c.weights = DefaultWeights

\* C9 as stated: bear panic under the default weights has a social heat below
\* 30 and is labelled "Extreme Fear" or "Fear" with the signal "buy
\* opportunity" or "accumulate cautiously".
C9_BearPanicIsFear ==
    \A i \in 1..Len(last) :
        BearPanicCall(last[i])
        => /\ Returned(last[i])
           /\ Result(last[i]).components.social_heat < 3000
           /\ Result(last[i]).overall \in {"Extreme Fear", "Fear"}
           /\ Result(last[i]).signal \in
                 {"buy opportunity", "accumulate cautiously"}

\* C9 as amended: bear panic under the default weights has a social heat of
\* 44.59 and a search momentum of 100, scores 64.29 and is labelled "Greed"
\* with the signal "consider taking profit".
C9_BearPanicIsGreed ==
    \A i \in 1..Len(last) :
        BearPanicCall(last[i])
        => /\ Returned(last[i])
           /\ Result(last[i]).components.social_heat = 4459
           /\ Result(last[i]).components.search_momentum = 10000
           /\ Result(last[i]).score = 6429
           /\ Result(last[i]).overall = "Greed"
           /\ Result(last[i]).signal = "consider taking profit"

C9_Witness ==
    /\ last # <<>>
    /\ BearPanicCall(last[1])
    /\ Returned(last[1])
    /\ Result(last[1]).overall = "Greed"

====
